---------------------------- MODULE Spec2Model ----------------------------
(***************************************************************************)
(* A model of the SequentialStudy controller of                            *)
(* src/pages/dashboard/sequential-study.js: the ordered sections built     *)
(* from a study plan, the section index, the quiz sub-state, the rendered  *)
(* view with the listeners attached to it, and the asynchronous fade       *)
(* transitions of nextSection()/prevSection().                             *)
(*                                                                         *)
(* Strings are sequences of one-character strings, so that toLowerCase,    *)
(* trim and includes are computed and not assumed.  Indices are 0-based as *)
(* in the source; TLA+ sequences are 1-based, hence the "+ 1" on access.   *)
(***************************************************************************)
EXTENDS Integers, Sequences, FiniteSets, TLC

VARIABLES
    data,                 \* this.data: the study plan document
    sections,             \* this.sections
    currentSectionIndex,  \* this.currentSectionIndex
    container,            \* this.container: "null" or "el"
    onComplete,           \* this.onComplete: TRUE when a callback is registered
    completions,          \* number of times the registered callback has run
    dom,                  \* what container.innerHTML holds, with its listeners
    inflight,             \* the nextSection()/prevSection() calls suspended at an await
    last,                 \* the branch the last handler invoked has taken
    answered,             \* history: the question indices submitQuizAnswer has graded
    driver,               \* the calling script: how many awaited nextSection() calls it
                          \* has made, and the index it saw at each call
    server                \* dev-server.js: the served files, the request being
                          \* handled, the handler it has reached, the response

vars == <<data, sections, currentSectionIndex, container, onComplete,
          completions, dom, inflight, last, answered, driver, server>>

----------------------------------------------------------------------------
(* Bounds of the model *)

MaxInFlight == 2

MaxScore == 3

MaxCompletions == 2

MaxQuestions == 3

MaxStrLen == 2

\* transitions started in the specification that counts them
MaxCalls == 3

----------------------------------------------------------------------------
(* Strings *)

UpperCase == <<"A", "B", "C", "D", "E", "F", "G", "H", "I", "J", "K", "L", "M",
               "N", "O", "P", "Q", "R", "S", "T", "U", "V", "W", "X", "Y", "Z">>

LowerCase == <<"a", "b", "c", "d", "e", "f", "g", "h", "i", "j", "k", "l", "m",
               "n", "o", "p", "q", "r", "s", "t", "u", "v", "w", "x", "y", "z">>

WhiteSpace == {" ", "\t", "\n"}

\* String.prototype.toLowerCase on one character
LowerChar(c) ==
    IF \E i \in 1..Len(UpperCase) : UpperCase[i] = c
    THEN LowerCase[CHOOSE i \in 1..Len(UpperCase) : UpperCase[i] = c]
    ELSE c

toLowerCase(s) == [i \in 1..Len(s) |-> LowerChar(s[i])]

RECURSIVE trimStart(_)
trimStart(s) ==
    IF s # <<>> /\ Head(s) \in WhiteSpace THEN trimStart(Tail(s)) ELSE s

RECURSIVE trimEnd(_)
trimEnd(s) ==
    IF s # <<>> /\ s[Len(s)] \in WhiteSpace
    THEN trimEnd(SubSeq(s, 1, Len(s) - 1))
    ELSE s

\* String.prototype.trim
trim(s) == trimEnd(trimStart(s))

\* String.prototype.includes: t occurs in s as a contiguous substring
includes(s, t) ==
    \E i \in 0..(Len(s) - Len(t)) : SubSeq(s, i + 1, i + Len(t)) = t

----------------------------------------------------------------------------
(* Documents *)

MultipleChoice == "multiple_choice"

ShortAnswer == "short_answer"

\* the i-th question of the question bank: the types alternate, the correct
\* answers and the options differ in case and in surrounding whitespace
QuestionAt(i) ==
    IF i % 2 = 1
    THEN [question |-> i, type |-> MultipleChoice,
          options |-> << <<"A">>, <<"b", " ">> >>,
          answer |-> IF i % 4 = 1 THEN <<"a">> ELSE <<"B">>]
    ELSE [question |-> i, type |-> ShortAnswer,
          options |-> <<>>,
          answer |-> IF i % 4 = 2 THEN <<"a", "b">> ELSE <<"p">>]

QuestionBank(n) == [i \in 1..n |-> QuestionAt(i)]

\* what a user may type into the short-answer textarea
TypedTexts == { <<"a">>, <<" ", "p">>, <<" ">> }

ExampleSets == { <<>>, <<"ex1">> }

\* every string of at most n characters over the characters cs
RECURSIVE StringsUpTo(_, _)
StringsUpTo(cs, n) ==
    IF n = 0
    THEN { <<>> }
    ELSE LET shorter == StringsUpTo(cs, n - 1)
         IN  shorter \cup { Append(s, c) : s \in shorter, c \in cs }

\* the strings the grading is checked on: every short string over a letter
\* in both cases, another letter and a blank, and the spec's own example
GradeStrings ==
    StringsUpTo({"a", "A", "b", " "}, MaxStrLen)
        \cup { <<"P", "a", "r", "i", "s">>, <<"p", "a", "r", "i", "s">> }

\* one-question documents, for the grading
GradeDocuments ==
    { [worked_examples |-> <<>>,
       active_recall   |-> << [question |-> 1, type |-> t,
                               options |-> << a >>, answer |-> a] >>] :
        t \in {MultipleChoice, ShortAnswer}, a \in GradeStrings }

\* documents with any list of bank questions, in any order, with repeats
BuildDocuments ==
    { [worked_examples |-> w, active_recall |-> q] :
        w \in ExampleSets \cup { <<"ex1", "ex2">> },
        q \in UNION { [1..n -> { QuestionAt(i) : i \in 1..MaxQuestions }] :
                        n \in 0..(MaxQuestions + 1) } }

\* the documents of the main specification
Documents ==
    { [worked_examples |-> w, active_recall |-> QuestionBank(n)] :
        w \in ExampleSets, n \in 0..MaxQuestions }

----------------------------------------------------------------------------
(* Construction *)

Explanation == "explanation"

Example == "example"

Quiz == "quiz"

\* slice(-n) in place of slice(0, n): the last n elements
slice_fromEnd(s, n) ==
    SubSeq(s, IF Len(s) < n THEN 1 ELSE Len(s) - n + 1, Len(s))

\* Array.prototype.slice(0, n)
slice(s, n) == SubSeq(s, 1, IF Len(s) < n THEN Len(s) ELSE n)

QuizLimit == 3

\* buildSections with the worked_examples test dropped
buildSections_alwaysExample(d) ==
    << [type |-> Explanation,
        content |-> [examples |-> <<>>, questions |-> <<>>,
                     currentQuestion |-> 0, score |-> 0],
        next_button |-> [enabled |-> TRUE]],
       [type |-> Example,
        content |-> [examples |-> d.worked_examples, questions |-> <<>>,
                     currentQuestion |-> 0, score |-> 0],
        next_button |-> [enabled |-> TRUE]] >>
    \o (IF Len(d.active_recall) > 0
        THEN << [type |-> Quiz,
                 content |-> [examples |-> <<>>,
                              questions |-> SubSeq(d.active_recall, 1,
                                  IF Len(d.active_recall) < 3
                                  THEN Len(d.active_recall) ELSE 3),
                              currentQuestion |-> 0, score |-> 0],
                 next_button |-> [enabled |-> FALSE]] >>
        ELSE <<>>)

buildSections(d) ==
    LET explanation ==
            << [type |-> Explanation,
                content |-> [examples |-> <<>>, questions |-> <<>>,
                             currentQuestion |-> 0, score |-> 0],
                next_button |-> [enabled |-> TRUE]] >>
        example ==
            IF Len(d.worked_examples) > 0
            THEN << [type |-> Example,
                     content |-> [examples |-> d.worked_examples,
                                  questions |-> <<>>,
                                  currentQuestion |-> 0, score |-> 0],
                     next_button |-> [enabled |-> TRUE]] >>
            ELSE <<>>
        quiz ==
            IF Len(d.active_recall) > 0
            THEN << [type |-> Quiz,
                     content |-> [examples |-> <<>>,
                                  questions |-> slice(d.active_recall, QuizLimit),
                                  currentQuestion |-> 0, score |-> 0],
                     next_button |-> [enabled |-> FALSE]] >>
            ELSE <<>>
    IN  explanation \o example \o quiz

\* sections[i] of the source, or "null" when i is outside the array
HasSection(secs, i) == 0 <= i /\ i < Len(secs)

SectionAt(secs, i) == secs[i + 1]

\* the position of the quiz section, or -1 (there is at most one)
QuizIndex(secs) ==
    IF \E i \in 0..(Len(secs) - 1) : SectionAt(secs, i).type = Quiz
    THEN CHOOSE i \in 0..(Len(secs) - 1) : SectionAt(secs, i).type = Quiz
    ELSE -1

EmptyDom ==
    [section |-> "none", back |-> FALSE, contListener |-> FALSE,
     contDisabled |-> FALSE, quiz |-> "none", shown |-> -1,
     answer |-> <<>>, correct |-> FALSE, percentage |-> -1]

\* res before anything has been sent
NoResponse == [status |-> 0, file |-> <<>>, text |-> ""]

\* the dev server is not running
NotListening ==
    [fs |-> {}, url |-> <<>>, stage |-> "down", by |-> "", response |-> NoResponse]

Constructed(d) ==
    /\ data = d
    /\ sections = buildSections(d)
    /\ currentSectionIndex = 0
    /\ container = "null"
    /\ onComplete = FALSE
    /\ completions = 0
    /\ dom = EmptyDom
    /\ inflight = <<>>
    /\ last = "constructor"
    /\ answered = {}
    /\ driver = [calls |-> 0, visited |-> <<>>]
    /\ server = NotListening

Init == \E d \in Documents : Constructed(d)

----------------------------------------------------------------------------
(* Grading and rendering *)

\* isCorrect with the toLowerCase() calls of the multiple_choice branch dropped
isCorrect_caseSensitive(question, userAnswer) ==
    IF question.type = MultipleChoice
    THEN trim(userAnswer) = trim(question.answer)
    ELSE \/ includes(toLowerCase(userAnswer), toLowerCase(question.answer))
         \/ includes(toLowerCase(question.answer), toLowerCase(userAnswer))

\* the isCorrect of submitQuizAnswer
isCorrect(question, userAnswer) ==
    IF question.type = MultipleChoice
    THEN trim(toLowerCase(userAnswer)) = trim(toLowerCase(question.answer))
    ELSE \/ includes(toLowerCase(userAnswer), toLowerCase(question.answer))
         \/ includes(toLowerCase(question.answer), toLowerCase(userAnswer))

\* the continue button is rendered live whatever next_button.enabled says
renderSection_alwaysLive(secs, idx, cont, old) ==
    IF cont = "null" \/ ~HasSection(secs, idx)
    THEN old
    ELSE LET section == SectionAt(secs, idx)
         IN  [section      |-> section.type,
              back         |-> idx > 0,
              contListener |-> TRUE,
              contDisabled |-> FALSE,
              quiz         |-> IF section.type = Quiz THEN "open" ELSE "none",
              shown        |-> IF section.type = Quiz
                               THEN section.content.currentQuestion
                               ELSE -1,
              answer       |-> <<>>,
              correct      |-> FALSE,
              percentage   |-> -1]

\* the view renderSection() leaves in the container: unchanged when there is
\* no container or no current section, otherwise the section's markup with
\* its listeners (continue only when enabled, back only when idx > 0)
renderSection(secs, idx, cont, old) ==
    IF cont = "null" \/ ~HasSection(secs, idx)
    THEN old
    ELSE LET section == SectionAt(secs, idx)
         IN  [section      |-> section.type,
              back         |-> idx > 0,
              contListener |-> section.next_button.enabled,
              contDisabled |-> ~section.next_button.enabled,
              quiz         |-> IF section.type = Quiz THEN "open" ELSE "none",
              shown        |-> IF section.type = Quiz
                               THEN section.content.currentQuestion
                               ELSE -1,
              answer       |-> <<>>,
              correct      |-> FALSE,
              percentage   |-> -1]

\* the question whose markup the view shows
ShownQuestion ==
    SectionAt(sections, QuizIndex(sections)).content.questions[dom.shown + 1]

----------------------------------------------------------------------------
(* The controller's methods, as the handlers run them *)

\* render(containerElement), which the hosting page calls once
render ==
    /\ container = "null"
    /\ container' = "el"
    /\ dom' = renderSection(sections, currentSectionIndex, "el", dom)
    /\ last' = "render"
    /\ UNCHANGED <<data, sections, currentSectionIndex, onComplete,
                   completions, inflight, answered>>

\* setOnComplete(callback), which the hosting page calls once
setOnComplete ==
    /\ ~onComplete
    /\ onComplete' = TRUE
    /\ last' = "setOnComplete"
    /\ UNCHANGED <<data, sections, currentSectionIndex, container,
                   completions, dom, inflight, answered>>

\* nextSection() with > in place of >= in its guard
nextSection_offByOne ==
    /\ IF currentSectionIndex > Len(sections) - 1
       THEN /\ onComplete => completions < MaxCompletions
            /\ completions' = IF onComplete THEN completions + 1 ELSE completions
            /\ UNCHANGED inflight
            /\ last' = "nextSection:complete"
       ELSE /\ Len(inflight) < MaxInFlight
            /\ inflight' = Append(inflight, [op |-> "next", phase |-> "exit"])
            /\ UNCHANGED completions
            /\ last' = "nextSection:fadeOut"
    /\ UNCHANGED <<data, sections, currentSectionIndex, container,
                   onComplete, dom, answered>>

\* nextSection() that runs the callback on the first terminal call only
nextSection_once ==
    /\ IF currentSectionIndex >= Len(sections) - 1
       THEN /\ onComplete => completions < MaxCompletions
            /\ completions' = IF onComplete /\ completions = 0
                              THEN completions + 1 ELSE completions
            /\ UNCHANGED inflight
            /\ last' = "nextSection:complete"
       ELSE /\ Len(inflight) < MaxInFlight
            /\ inflight' = Append(inflight, [op |-> "next", phase |-> "exit"])
            /\ UNCHANGED completions
            /\ last' = "nextSection:fadeOut"
    /\ UNCHANGED <<data, sections, currentSectionIndex, container,
                   onComplete, dom, answered>>

\* nextSection() returns at once while the section's button is disabled
nextSection_gated ==
    /\ IF /\ HasSection(sections, currentSectionIndex)
          /\ ~SectionAt(sections, currentSectionIndex).next_button.enabled
       THEN /\ UNCHANGED <<completions, inflight>>
            /\ last' = "nextSection:return"
       ELSE IF currentSectionIndex >= Len(sections) - 1
       THEN /\ onComplete => completions < MaxCompletions
            /\ completions' = IF onComplete THEN completions + 1 ELSE completions
            /\ UNCHANGED inflight
            /\ last' = "nextSection:complete"
       ELSE /\ Len(inflight) < MaxInFlight
            /\ inflight' = Append(inflight, [op |-> "next", phase |-> "exit"])
            /\ UNCHANGED completions
            /\ last' = "nextSection:fadeOut"
    /\ UNCHANGED <<data, sections, currentSectionIndex, container,
                   onComplete, dom, answered>>

\* nextSection() up to its first await
nextSection ==
    /\ IF currentSectionIndex >= Len(sections) - 1
       THEN /\ onComplete => completions < MaxCompletions
            /\ completions' = IF onComplete THEN completions + 1 ELSE completions
            /\ UNCHANGED inflight
            /\ last' = "nextSection:complete"
       ELSE /\ Len(inflight) < MaxInFlight
            /\ inflight' = Append(inflight, [op |-> "next", phase |-> "exit"])
            /\ UNCHANGED completions
            /\ last' = "nextSection:fadeOut"
    /\ UNCHANGED <<data, sections, currentSectionIndex, container,
                   onComplete, dom, answered>>

\* prevSection() with < in place of <= in its guard
prevSection_offByOne ==
    /\ IF currentSectionIndex < 0
       THEN /\ UNCHANGED inflight
            /\ last' = "prevSection:return"
       ELSE /\ Len(inflight) < MaxInFlight
            /\ inflight' = Append(inflight, [op |-> "prev", phase |-> "exit"])
            /\ last' = "prevSection:fadeOut"
    /\ UNCHANGED <<data, sections, currentSectionIndex, container,
                   onComplete, completions, dom, answered>>

\* prevSection() up to its first await
prevSection ==
    /\ IF currentSectionIndex <= 0
       THEN /\ UNCHANGED inflight
            /\ last' = "prevSection:return"
       ELSE /\ Len(inflight) < MaxInFlight
            /\ inflight' = Append(inflight, [op |-> "prev", phase |-> "exit"])
            /\ last' = "prevSection:fadeOut"
    /\ UNCHANGED <<data, sections, currentSectionIndex, container,
                   onComplete, completions, dom, answered>>

\* the suspended calls still in their exit phase
Exiting == { k \in 1..Len(inflight) : inflight[k].phase = "exit" }

RemoveAt(s, k) == SubSeq(s, 1, k - 1) \o SubSeq(s, k + 1, Len(s))

\* prevSection() returns to the first section instead of the previous one
afterFadeOut_toStart ==
    /\ Exiting # {}
    /\ LET k == CHOOSE k \in Exiting : \A j \in Exiting : k <= j
           idx == IF inflight[k].op = "next"
                  THEN currentSectionIndex + 1
                  ELSE 0
       IN  /\ currentSectionIndex' = idx
           /\ dom' = renderSection(sections, idx, container, dom)
           /\ inflight' = IF container = "null"
                          THEN RemoveAt(inflight, k)
                          ELSE [inflight EXCEPT ![k].phase = "entry"]
    /\ UNCHANGED <<data, sections, container, onComplete, completions,
                   last, answered>>

\* fadeOut() resolves for the oldest call still exiting: the index moves and
\* fadeIn() renders the section at the new index; without a container
\* fadeIn() resolves at once and the call is over
afterFadeOut ==
    /\ Exiting # {}
    /\ LET k == CHOOSE k \in Exiting : \A j \in Exiting : k <= j
           idx == IF inflight[k].op = "next"
                  THEN currentSectionIndex + 1
                  ELSE currentSectionIndex - 1
       IN  /\ currentSectionIndex' = idx
           /\ dom' = renderSection(sections, idx, container, dom)
           /\ inflight' = IF container = "null"
                          THEN RemoveAt(inflight, k)
                          ELSE [inflight EXCEPT ![k].phase = "entry"]
    /\ UNCHANGED <<data, sections, container, onComplete, completions,
                   last, answered>>

\* the end of an entry phase drops the calls still pending behind it
afterFadeIn_cancelsPending ==
    /\ inflight # <<>>
    /\ Head(inflight).phase = "entry"
    /\ inflight' = <<>>
    /\ UNCHANGED <<data, sections, currentSectionIndex, container, onComplete,
                   completions, dom, last, answered>>

\* fadeIn() resolves for the oldest call: the call is over
afterFadeIn ==
    /\ inflight # <<>>
    /\ Head(inflight).phase = "entry"
    /\ inflight' = Tail(inflight)
    /\ UNCHANGED <<data, sections, currentSectionIndex, container, onComplete,
                   completions, dom, last, answered>>

\* the failed handler leaves the study at its first section
Throws_rewinds(method) ==
    /\ last' = method
    /\ currentSectionIndex' = 0
    /\ UNCHANGED <<data, sections, container, onComplete,
                   completions, dom, inflight, answered>>

\* the handler ends with a TypeError before it has changed anything
Throws(method) ==
    /\ last' = method
    /\ UNCHANGED <<data, sections, currentSectionIndex, container, onComplete,
                   completions, dom, inflight, answered>>

\* a wrong answer costs a point
scoreAfter_penalising(score, ok) == IF ok THEN score + 1 ELSE score - 1

\* if (isCorrect) { section.content.score++; }
scoreAfter(score, ok) == IF ok THEN score + 1 ELSE score

\* grading moves on to the next question by itself
submitQuizAnswer_autoAdvance(userAnswer) ==
    IF ~HasSection(sections, currentSectionIndex)
       \/ SectionAt(sections, currentSectionIndex).type # Quiz
    THEN Throws("submitQuizAnswer:TypeError")
    ELSE LET content  == SectionAt(sections, currentSectionIndex).content
             question == content.questions[content.currentQuestion + 1]
             ok       == isCorrect(question, userAnswer)
             following == IF content.currentQuestion < Len(content.questions) - 1
                          THEN content.currentQuestion + 1
                          ELSE content.currentQuestion
         IN  /\ ok => content.score < MaxScore
             /\ sections' =
                    [sections EXCEPT
                        ![currentSectionIndex + 1].content.score =
                            scoreAfter(content.score, ok),
                        ![currentSectionIndex + 1].content.currentQuestion =
                            following]
             /\ answered' = answered \cup {content.currentQuestion}
             /\ last' = "submitQuizAnswer:graded"
             /\ dom' = [dom EXCEPT !.quiz = "open", !.shown = following,
                                   !.answer = userAnswer, !.correct = ok]
             /\ UNCHANGED <<data, currentSectionIndex, container, onComplete,
                            completions, inflight>>

submitQuizAnswer(userAnswer) ==
    IF ~HasSection(sections, currentSectionIndex)
       \/ SectionAt(sections, currentSectionIndex).type # Quiz
    THEN Throws("submitQuizAnswer:TypeError")
    ELSE LET content  == SectionAt(sections, currentSectionIndex).content
             question == content.questions[content.currentQuestion + 1]
             ok       == isCorrect(question, userAnswer)
         IN  /\ ok => content.score < MaxScore
             /\ sections' =
                    [sections EXCEPT ![currentSectionIndex + 1].content.score =
                        scoreAfter(content.score, ok)]
             /\ answered' = answered \cup {content.currentQuestion}
             /\ IF container = "null" \/ dom.quiz \notin {"open", "feedback"}
                THEN \* no #quiz-feedback element: TypeError after the grading
                     /\ last' = "submitQuizAnswer:gradedTypeError"
                     /\ UNCHANGED dom
                ELSE /\ last' = "submitQuizAnswer:graded"
                     /\ dom' = [dom EXCEPT !.quiz = "feedback",
                                           !.answer = userAnswer,
                                           !.correct = ok]
             /\ UNCHANGED <<data, currentSectionIndex, container, onComplete,
                            completions, inflight>>

\* Math.floor in the place of Math.round
MathRound_floor(num, den) == num \div den

\* Math.round(num / den) for num >= 0 and den > 0: the nearest integer, a
\* half going up
MathRound(num, den) == (2 * num + den) \div (2 * den)

\* the results panel is shown and the section's button stays disabled
showQuizResults_keepsDisabled ==
    IF \/ ~HasSection(sections, currentSectionIndex)
       \/ SectionAt(sections, currentSectionIndex).type # Quiz
       \/ container = "null"
       \/ dom.section = "none"
    THEN Throws("showQuizResults:TypeError")
    ELSE /\ dom' = [dom EXCEPT !.quiz = "results"]
         /\ last' = "showQuizResults"
         /\ UNCHANGED <<data, sections, currentSectionIndex, container,
                        onComplete, completions, inflight, answered>>

showQuizResults ==
    IF \/ ~HasSection(sections, currentSectionIndex)
       \/ SectionAt(sections, currentSectionIndex).type # Quiz
       \/ container = "null"
       \/ dom.section = "none"
    THEN Throws("showQuizResults:TypeError")
    ELSE /\ sections' =
               [sections EXCEPT ![currentSectionIndex + 1].next_button.enabled = TRUE]
         /\ dom' = [dom EXCEPT
                       !.quiz = "results",
                       !.contDisabled = FALSE,
                       !.percentage =
                           LET content == SectionAt(sections, currentSectionIndex).content
                           IN  MathRound(100 * content.score, Len(content.questions))]
         /\ last' = "showQuizResults"
         /\ UNCHANGED <<data, currentSectionIndex, container, onComplete,
                        completions, inflight, answered>>

\* the listener compares with questions.length, not questions.length - 1
nextQuizQuestion_offByOne ==
    LET qi      == QuizIndex(sections)
        content == SectionAt(sections, qi).content
    IN  IF content.currentQuestion < Len(content.questions)
        THEN LET secs == [sections EXCEPT ![qi + 1].content.currentQuestion =
                                              content.currentQuestion + 1]
             IN  /\ sections' = secs
                 /\ dom' = [dom EXCEPT !.quiz = "open", !.shown = content.currentQuestion + 1]
                 /\ last' = "nextQuestion"
                 /\ UNCHANGED <<data, currentSectionIndex, container, onComplete,
                                completions, inflight, answered>>
        ELSE showQuizResults

\* the click listener of #next-quiz-question; it closes over the quiz section
nextQuizQuestion ==
    LET qi      == QuizIndex(sections)
        content == SectionAt(sections, qi).content
    IN  IF content.currentQuestion < Len(content.questions) - 1
        THEN LET secs == [sections EXCEPT ![qi + 1].content.currentQuestion =
                                              content.currentQuestion + 1]
             IN  /\ sections' = secs
                 /\ dom' = renderSection(secs, currentSectionIndex, container, dom)
                 /\ last' = "nextQuestion"
                 /\ UNCHANGED <<data, currentSectionIndex, container, onComplete,
                                completions, inflight, answered>>
        ELSE showQuizResults

----------------------------------------------------------------------------
(* Actions: what the page's user and the page's script can do *)

ClickContinue ==
    /\ dom.section # "none"
    /\ dom.contListener
    /\ ~dom.contDisabled
    /\ nextSection
    /\ UNCHANGED <<driver, server>>

ClickBack ==
    /\ dom.back
    /\ prevSection
    /\ UNCHANGED <<driver, server>>

ClickOption(option) ==
    /\ dom.quiz = "open"
    /\ ShownQuestion.type = MultipleChoice
    /\ \E i \in 1..Len(ShownQuestion.options) : ShownQuestion.options[i] = option
    /\ submitQuizAnswer(option)
    /\ UNCHANGED <<driver, server>>

ClickSubmitShort(text) ==
    /\ dom.quiz = "open"
    /\ ShownQuestion.type # MultipleChoice
    /\ IF trim(text) # <<>>
       THEN submitQuizAnswer(trim(text))
       ELSE UNCHANGED <<data, sections, currentSectionIndex, container,
                        onComplete, completions, dom, inflight, last, answered>>
    /\ UNCHANGED <<driver, server>>

ClickNextQuestion ==
    /\ dom.quiz = "feedback"
    /\ nextQuizQuestion
    /\ UNCHANGED <<driver, server>>

FadeOutDone == afterFadeOut /\ UNCHANGED <<driver, server>>

FadeInDone == afterFadeIn /\ UNCHANGED <<driver, server>>

Render == render /\ UNCHANGED <<driver, server>>

SetOnComplete == setOnComplete /\ UNCHANGED <<driver, server>>

CallNextSection == nextSection /\ UNCHANGED <<driver, server>>

CallPrevSection == prevSection /\ UNCHANGED <<driver, server>>

CallSubmitQuizAnswer(userAnswer) == submitQuizAnswer(userAnswer) /\ UNCHANGED <<driver, server>>

\* every option a rendered question can offer
Options ==
    UNION { { QuestionAt(i).options[j] : j \in 1..Len(QuestionAt(i).options) } :
              i \in 1..MaxQuestions }

\* the answers a script passes to submitQuizAnswer
ScriptAnswers == { <<"a">>, <<"x">> }

Next ==
    \/ Render
    \/ SetOnComplete
    \/ ClickContinue
    \/ ClickBack
    \/ \E option \in Options : ClickOption(option)
    \/ \E text \in TypedTexts : ClickSubmitShort(text)
    \/ ClickNextQuestion
    \/ FadeOutDone
    \/ FadeInDone
    \/ CallNextSection
    \/ CallPrevSection
    \/ \E userAnswer \in ScriptAnswers : CallSubmitQuizAnswer(userAnswer)

Spec == Init /\ [][Next]_vars

\* a script that registers its callback and then calls nextSection() again
\* and again, awaiting each call before it makes the next
AwaitedNextSection ==
    /\ onComplete
    /\ inflight = <<>>
    /\ nextSection
    /\ driver' = [calls   |-> driver.calls + 1,
                  visited |-> Append(driver.visited, currentSectionIndex)]
    /\ UNCHANGED server

NextAwaited ==
    \/ Render
    \/ SetOnComplete
    \/ AwaitedNextSection
    \/ FadeOutDone
    \/ FadeInDone

InitAwaited == \E d \in BuildDocuments : Constructed(d)

SpecAwaited == InitAwaited /\ [][NextAwaited]_vars

\* a script that opens a one-question quiz and submits one answer to it
OpenQuiz ==
    /\ inflight = <<>>
    /\ currentSectionIndex < Len(sections) - 1
    /\ nextSection
    /\ UNCHANGED <<driver, server>>

SubmitOnce(userAnswer) ==
    /\ answered = {}
    /\ submitQuizAnswer(userAnswer)
    /\ UNCHANGED <<driver, server>>

NextGrade ==
    \/ Render
    \/ OpenQuiz
    \/ FadeOutDone
    \/ FadeInDone
    \/ \E userAnswer \in GradeStrings : SubmitOnce(userAnswer)

InitGrade == \E d \in GradeDocuments : Constructed(d)

SpecGrade == InitGrade /\ [][NextGrade]_vars

\* the page driven through its rendered controls only
NextUI ==
    \/ Render
    \/ SetOnComplete
    \/ ClickContinue
    \/ ClickBack
    \/ \E option \in Options : ClickOption(option)
    \/ \E text \in TypedTexts : ClickSubmitShort(text)
    \/ ClickNextQuestion
    \/ FadeOutDone
    \/ FadeInDone

SpecUI == Init /\ [][NextUI]_vars

\* a document with no worked examples and two questions, worked through by a
\* user who answers on the page and a script that awaits its nextSection()
\* calls
ScenarioDocuments ==
    { d \in BuildDocuments :
        Len(d.worked_examples) = 0 /\ Len(d.active_recall) = 2 }

NextScenario ==
    \/ Render
    \/ SetOnComplete
    \/ AwaitedNextSection
    \/ \E option \in Options : ClickOption(option)
    \/ \E text \in TypedTexts : ClickSubmitShort(text)
    \/ ClickNextQuestion
    \/ FadeOutDone
    \/ FadeInDone

InitScenario == \E d \in ScenarioDocuments : Constructed(d)

SpecScenario == InitScenario /\ [][NextScenario]_vars

\* the page and a script navigate freely; the log counts the calls that
\* passed their guard and started a transition
CountCall ==
    /\ driver.calls + Len(inflight') - Len(inflight) <= MaxCalls
    /\ driver' = [driver EXCEPT !.calls = @ + Len(inflight') - Len(inflight)]
    /\ UNCHANGED server

CountedClickContinue ==
    /\ dom.section # "none"
    /\ dom.contListener
    /\ ~dom.contDisabled
    /\ nextSection
    /\ CountCall

CountedClickBack ==
    /\ dom.back
    /\ prevSection
    /\ CountCall

CountedNextSection == nextSection /\ CountCall

CountedPrevSection == prevSection /\ CountCall

NextCounted ==
    \/ Render
    \/ CountedClickContinue
    \/ CountedClickBack
    \/ CountedNextSection
    \/ CountedPrevSection
    \/ \E option \in Options : ClickOption(option)
    \/ \E text \in TypedTexts : ClickSubmitShort(text)
    \/ ClickNextQuestion
    \/ FadeOutDone
    \/ FadeInDone

\* the setTimeout callbacks of fadeOut and fadeIn are run when they are due
SpecCounted ==
    /\ Init
    /\ [][NextCounted]_vars
    /\ WF_vars(FadeOutDone)
    /\ WF_vars(FadeInDone)


----------------------------------------------------------------------------
(* dev-server.js.  A URL path and a file path are sequences of segments, a  *)
(* segment is a sequence of characters; "/dashboard/" ends with an empty   *)
(* segment.  File paths are relative to __dirname.  The handlers are tried  *)
(* in the order app.use / app.get registered them.                          *)

backend == <<"b", "a", "c", "k", "e", "n", "d">>

js == <<"j", "s">>

auth_js == <<"a", "u", "t", "h", ".", "j", "s">>

mock_auth_js == <<"m", "o", "c", "k", "-", "a", "u", "t", "h", ".", "j", "s">>

dashboard == <<"d", "a", "s", "h", "b", "o", "a", "r", "d">>

pages == <<"p", "a", "g", "e", "s">>

index_html == <<"i", "n", "d", "e", "x", ".", "h", "t", "m", "l">>

login == <<"l", "o", "g", "i", "n">>

onboarding == <<"o", "n", "b", "o", "a", "r", "d", "i", "n", "g">>

profile == <<"p", "r", "o", "f", "i", "l", "e">>

\* what follows /dashboard/ in the requests tried
SubPaths ==
    { << <<"a">> >>,
      << <<"a", ".", "j">> >>,
      << <<"s">> >>,
      << <<"s">>, <<"a">> >>,
      << <<"s">>, <<"a", ".", "j">> >>,
      << <<"v", ".", "1">>, <<"a">> >> }

\* the paths requested with GET
Urls ==
    { <<backend, js, auth_js>>, <<mock_auth_js>>, <<dashboard>>,
      <<dashboard, <<>>>>, <<login>>, <<onboarding>>, <<profile>>, <<js>> }
        \cup { <<dashboard>> \o sub : sub \in SubPaths }

\* the regular files that may or may not exist under __dirname
CandidateFiles ==
    { <<mock_auth_js>>, <<backend, js, auth_js>>, <<pages, dashboard, index_html>>,
      <<pages, login, index_html>> }
        \cup { <<pages, dashboard>> \o sub : sub \in SubPaths }

\* Array.prototype.join("/") of the segments: req.params[0]
RECURSIVE join(_)
join(segs) ==
    IF segs = <<>>
    THEN <<>>
    ELSE IF Len(segs) = 1
    THEN segs[1]
    ELSE segs[1] \o <<"/">> \o join(Tail(segs))

Sent(file) == [status |-> 200, file |-> file, text |-> ""]

\* res.status(404).send('Not Found')
NotFound == [status |-> 404, file |-> <<>>, text |-> "Not Found"]

\* the response express gives when sendFile fails and nobody handles the error
SendError == [status |-> 404, file |-> <<>>, text |-> "Error"]

\* the response express gives when no handler answers
CannotGet == [status |-> 404, file |-> <<>>, text |-> "Cannot GET"]

\* res.sendFile(file) without a callback
sendFile(file) == IF file \in server.fs THEN Sent(file) ELSE SendError

Respond(handler, response) ==
    server' = [server EXCEPT !.stage = "idle", !.by = handler, !.response = response]

Pass(stage) == server' = [server EXCEPT !.stage = stage]

StudyUnchanged ==
    UNCHANGED <<data, sections, currentSectionIndex, container, onComplete,
                completions, dom, inflight, last, answered, driver>>

\* a GET request arrives
Get(url) ==
    /\ server.stage = "idle"
    /\ server' = [server EXCEPT !.url = url, !.stage = "static", !.by = "",
                                !.response = NoResponse]
    /\ StudyUnchanged

\* app.use(express.static(__dirname)): an existing file is served, anything
\* else goes on to the next handler
Static ==
    /\ server.stage = "static"
    /\ IF server.url \in server.fs
       THEN Respond("static", Sent(server.url))
       ELSE Pass("auth")
    /\ StudyUnchanged

\* app.get('/backend/js/auth.js')
AuthRewrite ==
    /\ server.stage = "auth"
    /\ IF server.url = <<backend, js, auth_js>>
       THEN Respond("auth", sendFile(<<mock_auth_js>>))
       ELSE Pass("dashboard")
    /\ StudyUnchanged

\* app.get('/dashboard'); the route also matches the path with a trailing slash
DashboardIndex ==
    /\ server.stage = "dashboard"
    /\ IF server.url \in { <<dashboard>>, <<dashboard, <<>>>> }
       THEN Respond("dashboard", sendFile(<<pages, dashboard, index_html>>))
       ELSE Pass("dashboard/*")
    /\ StudyUnchanged

\* app.get('/dashboard/*') up to res.sendFile(potentialFile, callback)
DashboardRewrite ==
    /\ server.stage = "dashboard/*"
    /\ IF Len(server.url) >= 2 /\ server.url[1] = dashboard
       THEN LET potentialFile == <<pages, dashboard>> \o Tail(server.url)
            IN  IF potentialFile \in server.fs
                THEN Respond("dashboard/*", Sent(potentialFile))
                ELSE Pass("callback")
       ELSE Pass("pages")
    /\ StudyUnchanged

\* the callback always falls back to index.html
SendFileCallback_spa ==
    /\ server.stage = "callback"
    /\ Respond("dashboard/*", sendFile(<<pages, dashboard, index_html>>))
    /\ StudyUnchanged

\* the callback of res.sendFile(potentialFile, ...) called with an error
SendFileCallback ==
    /\ server.stage = "callback"
    /\ LET subPath == join(Tail(server.url))
       IN  IF ~includes(subPath, <<".">>)
           THEN Respond("dashboard/*", sendFile(<<pages, dashboard, index_html>>))
           ELSE Respond("dashboard/*", NotFound)
    /\ StudyUnchanged

\* app.get('/login'), app.get('/onboarding'), app.get('/profile')
PageRoutes ==
    /\ server.stage = "pages"
    /\ IF server.url \in { <<login>>, <<onboarding>>, <<profile>> }
       THEN Respond("pages", sendFile(<<pages, server.url[1], index_html>>))
       ELSE Pass("final")
    /\ StudyUnchanged

\* no handler answered
FinalHandler ==
    /\ server.stage = "final"
    /\ Respond("final", CannotGet)
    /\ StudyUnchanged

NextServer ==
    \/ \E url \in Urls : Get(url)
    \/ Static
    \/ AuthRewrite
    \/ DashboardIndex
    \/ DashboardRewrite
    \/ SendFileCallback
    \/ PageRoutes
    \/ FinalHandler

\* app.listen: the server is up over some set of files; no study is open
InitServer ==
    /\ \E d \in { [worked_examples |-> <<>>, active_recall |-> <<>>] } :
          /\ data = d
          /\ sections = buildSections(d)
    /\ currentSectionIndex = 0
    /\ container = "null"
    /\ onComplete = FALSE
    /\ completions = 0
    /\ dom = EmptyDom
    /\ inflight = <<>>
    /\ last = "constructor"
    /\ answered = {}
    /\ driver = [calls |-> 0, visited |-> <<>>]
    /\ \E fs \in SUBSET CandidateFiles :
          server = [NotListening EXCEPT !.fs = fs, !.stage = "idle"]

SpecServer == InitServer /\ [][NextServer]_vars

----------------------------------------------------------------------------
(* State functions the properties read *)

HasQuiz == QuizIndex(sections) >= 0

QuizContent == SectionAt(sections, QuizIndex(sections)).content

Score == IF HasQuiz THEN QuizContent.score ELSE 0

CurrentQuestion == IF HasQuiz THEN QuizContent.currentQuestion ELSE 0

QuestionCount == IF HasQuiz THEN Len(QuizContent.questions) ELSE 0

QuizEnabled == HasQuiz /\ SectionAt(sections, QuizIndex(sections)).next_button.enabled

----------------------------------------------------------------------------
(* Properties *)

\* C1: in every reachable state 0 <= currentSectionIndex < sections.length,
\* so that getCurrentSection() returns a section, also when nextSection() or
\* prevSection() is invoked while an earlier fade is still in flight.
C1_IndexWithinSections ==
    0 <= currentSectionIndex /\ currentSectionIndex < Len(sections)

\* C2: in every reachable state the quiz score is between 0 and the number
\* of questions of the quiz section.
C2_ScoreWithinQuestions ==
    HasQuiz => 0 <= Score /\ Score <= QuestionCount

\* C3: a question instance is credited at most once: while the view shows the
\* current question as answered correctly and currentQuestion stays the same,
\* no step raises the score again.
C3_OneCreditPerQuestion ==
    [][ ( /\ HasQuiz
          /\ dom.quiz = "feedback"
          /\ dom.correct
          /\ dom.shown = CurrentQuestion
          /\ CurrentQuestion' = CurrentQuestion )
        => Score' = Score ]_vars

\* C4: the quiz section's next_button.enabled is false in every state in
\* which not every question of the quiz has been submitted, and once true it
\* is never set back to false.
C4_EnabledOnlyAfterAllAnswered ==
    QuizEnabled => answered = 0..(QuestionCount - 1)

\* the second half of C4 on its own: no step sets an enabled quiz section
\* back to disabled
C4_EnabledStaysEnabled ==
    [][ QuizEnabled => QuizEnabled' ]_vars

\* C5: a script that calls nextSection() again and again from a fresh
\* controller, awaiting each call, makes its first len(sections) calls at
\* the indices 0, 1, ..., len(sections) - 1, each exactly once and in this
\* order; the call made at the last index fires the completion callback,
\* and so does every call after it.
C5_AwaitedCallsVisitInOrder ==
    LET n == Len(sections)
    IN  /\ driver.visited =
              [i \in 1..driver.calls |-> IF i <= n THEN i - 1 ELSE n - 1]
        /\ completions = IF driver.calls >= n THEN driver.calls - n + 1 ELSE 0

C5_Witness ==
    /\ Len(sections) = 3
    /\ driver.calls = 4
    /\ driver.visited = <<0, 1, 2, 2>>
    /\ completions = 2

\* C6: a nextSection() call made on the last section invokes the registered
\* callback exactly once, leaves currentSectionIndex alone and starts no
\* fade, however often the callback has run before; a call made on a section
\* that is not the last one does not invoke it.
C6_TerminalCallCompletes ==
    [][ nextSection =>
          IF currentSectionIndex = Len(sections) - 1
          THEN /\ completions' = completions + (IF onComplete THEN 1 ELSE 0)
               /\ currentSectionIndex' = currentSectionIndex
               /\ inflight' = inflight
               /\ dom' = dom
          ELSE HasSection(sections, currentSectionIndex)
                   => completions' = completions ]_vars

C6_Witness ==
    /\ last = "nextSection:complete"
    /\ currentSectionIndex = Len(sections) - 1
    /\ completions = 2
    /\ inflight = <<>>

\* C7: prevSection() called at index 0 changes nothing: the index, the
\* sections with their quiz state and the rendered view stay as they are and
\* no transition starts.
C7_RetreatAtFirstIsNoOp ==
    [][ (prevSection /\ currentSectionIndex = 0) =>
          UNCHANGED <<currentSectionIndex, sections, dom, inflight,
                      completions, container, onComplete>> ]_vars

C7_Witness ==
    /\ last = "prevSection:return"
    /\ currentSectionIndex = 0
    /\ dom.section = Explanation
    /\ inflight = <<>>

SectionRank(type) ==
    CASE type = Explanation -> 1
      [] type = Example -> 2
      [] type = Quiz -> 3

\* C8: the built sections start with an Explanation section, hold an Example
\* section iff worked_examples is non-empty and a Quiz section iff
\* active_recall is non-empty, in the order Explanation, Example, Quiz; right
\* after construction next_button.enabled is true for Explanation and Example
\* and false for Quiz.
C8_SectionsFollowDocument ==
    /\ Len(sections) >= 1
    /\ sections[1].type = Explanation
    /\ (\E i \in 1..Len(sections) : sections[i].type = Example)
           <=> Len(data.worked_examples) > 0
    /\ (\E i \in 1..Len(sections) : sections[i].type = Quiz)
           <=> Len(data.active_recall) > 0
    /\ \A i, j \in 1..Len(sections) :
           i < j => SectionRank(sections[i].type) < SectionRank(sections[j].type)
    /\ last = "constructor" =>
           \A i \in 1..Len(sections) :
               sections[i].next_button.enabled <=> sections[i].type # Quiz

C8_Witness ==
    /\ last = "constructor"
    /\ Len(data.worked_examples) = 0
    /\ Len(data.active_recall) = 2
    /\ Len(sections) = 2
    /\ sections[2].type = Quiz

\* C9: the Quiz section holds min(3, n) questions for an input list of n >= 1
\* questions, and they are the first min(3, n) of the input, in its order.
C9_QuizIsPrefixOfInput ==
    Len(data.active_recall) >= 1 =>
        /\ HasQuiz
        /\ QuestionCount =
               (IF Len(data.active_recall) < 3 THEN Len(data.active_recall) ELSE 3)
        /\ \A i \in 1..QuestionCount :
               QuizContent.questions[i] = data.active_recall[i]

C9_Witness ==
    /\ Len(data.active_recall) = 4
    /\ QuestionCount = 3
    /\ data.active_recall[1] # data.active_recall[4]
    /\ data.active_recall[1] # data.active_recall[2]

\* two characters that are the same letter, whatever their case
SameLetter(c, d) ==
    \/ c = d
    \/ \E i \in 1..Len(UpperCase) : {c, d} = {UpperCase[i], LowerCase[i]}

\* s without the whitespace around it
Core(s) ==
    LET inked == { i \in 1..Len(s) : s[i] \notin WhiteSpace }
    IN  IF inked = {}
        THEN <<>>
        ELSE SubSeq(s, CHOOSE i \in inked : \A j \in inked : i <= j,
                       CHOOSE i \in inked : \A j \in inked : i >= j)

SameIgnoringCase(s, t) ==
    /\ Len(s) = Len(t)
    /\ \A i \in 1..Len(s) : SameLetter(s[i], t[i])

\* C10: for a multiple_choice question submitQuizAnswer grades the candidate
\* correct iff the candidate and the correct answer, each without its
\* surrounding whitespace, are the same string up to the case of the letters.
C10_MultipleChoiceExactMatch ==
    (last = "submitQuizAnswer:graded" /\ ShownQuestion.type = MultipleChoice) =>
        (dom.correct <=> SameIgnoringCase(Core(dom.answer), Core(ShownQuestion.answer)))

C10_Witness ==
    /\ last = "submitQuizAnswer:graded"
    /\ ShownQuestion.type = MultipleChoice
    /\ dom.answer = <<"P", "a", "r", "i", "s">>
    /\ ShownQuestion.answer = <<"p", "a", "r", "i", "s">>
    /\ dom.correct
    /\ Score = 1

\* t occurs in s as a contiguous substring, up to the case of the letters
ContainsIgnoringCase(s, t) ==
    \E i \in 0..(Len(s) - Len(t)) :
        SameIgnoringCase(SubSeq(s, i + 1, i + Len(t)), t)

\* C11: for a question that is not multiple_choice submitQuizAnswer grades
\* the candidate correct iff, with the surrounding whitespace of both strings
\* removed and the case of the letters ignored, the candidate occurs in the
\* correct answer or the correct answer occurs in the candidate.
C11_ShortAnswerContainment ==
    (last = "submitQuizAnswer:graded" /\ ShownQuestion.type # MultipleChoice) =>
        (dom.correct <=>
            \/ ContainsIgnoringCase(Core(ShownQuestion.answer), Core(dom.answer))
            \/ ContainsIgnoringCase(Core(dom.answer), Core(ShownQuestion.answer)))

\* C12: the percentage that showQuizResults reports is the integer nearest
\* to 100 * score / total, a half going up, where total is the number of
\* questions of the quiz; for score 2 of total 3 it is 67.
C12_PercentageRounded ==
    (last = "showQuizResults" /\ dom.quiz = "results") =>
        LET p == dom.percentage
            d == 2 * (100 * Score - p * QuestionCount)
        IN  /\ -QuestionCount <= d
            /\ d < QuestionCount
            /\ (Score = 2 /\ QuestionCount = 3) => p = 67

C12_Witness ==
    /\ last = "showQuizResults"
    /\ dom.quiz = "results"
    /\ Score = 2
    /\ QuestionCount = 3
    /\ dom.percentage = 67

\* C13: no step of the controller (navigation, submission, next question,
\* finalization, rendering, registration) lowers the score of the quiz.
C13_ScoreNeverDecreases ==
    [][ HasQuiz => Score' >= Score ]_vars

\* a wrong answer has been graded and a point earned before it is still there
C13_Witness ==
    /\ last = "submitQuizAnswer:graded"
    /\ ~dom.correct
    /\ Score = 1
    /\ Cardinality(answered) = 2

\* C14: for a document with no worked examples and two questions the
\* sections are [explanation, quiz]; the awaited nextSection() made at the
\* explanation ends at the quiz; once both questions are answered and stepped
\* through the quiz section's next_button.enabled is true; a nextSection()
\* made after that fires the completion callback.
C14_TwoQuestionScenario ==
    [][ /\ [i \in 1..Len(sections) |-> sections[i].type] = <<Explanation, Quiz>>
        /\ (driver.calls' >= 1 /\ inflight' = <<>>) =>
               /\ driver.visited'[1] = 0
               /\ currentSectionIndex' = 1
               /\ container' # "null" => dom'.section = Quiz
        /\ (answered' = {0, 1} /\ dom'.quiz = "results") => QuizEnabled'
        /\ (AwaitedNextSection /\ QuizEnabled) =>
               /\ completions' = completions + 1
               /\ currentSectionIndex' = currentSectionIndex ]_vars

\* the quiz was finished, and the call made after that completed the study
C14_Witness ==
    /\ driver.visited = <<0, 1>>
    /\ answered = {0, 1}
    /\ dom.quiz = "results"
    /\ QuizEnabled
    /\ last = "nextSection:complete"
    /\ completions = 1

\* the answers that reach submitQuizAnswer, from the page or from a script
SubmittedAnswers == ScriptAnswers \cup Options \cup { trim(text) : text \in TypedTexts }

\* a step of submitQuizAnswer, whoever made the call
SubmitStep ==
    /\ last' \in {"submitQuizAnswer:TypeError", "submitQuizAnswer:gradedTypeError",
                  "submitQuizAnswer:graded"}
    /\ \E userAnswer \in SubmittedAnswers : submitQuizAnswer(userAnswer)

\* C15: submitQuizAnswer called while the current section is an explanation,
\* an example or missing ends with an error and changes nothing: the score,
\* currentQuestion, every next_button.enabled and currentSectionIndex are as
\* they were.
C15_SubmitOutsideQuizRejected ==
    [][ ( /\ \/ ~HasSection(sections, currentSectionIndex)
             \/ SectionAt(sections, currentSectionIndex).type # Quiz
          /\ SubmitStep )
        => /\ last' = "submitQuizAnswer:TypeError"
           /\ UNCHANGED <<sections, currentSectionIndex, completions, dom>> ]_vars

\* the call was made at the example section, after a point had been earned
C15_Witness ==
    /\ last = "submitQuizAnswer:TypeError"
    /\ HasSection(sections, currentSectionIndex)
    /\ SectionAt(sections, currentSectionIndex).type = Example
    /\ Score = 1

\* C16: currentQuestion of the quiz lies in 0 .. questions.length - 1 in
\* every state; the next-question listener adds one to it while a question
\* remains and on the last question shows the results and leaves it as it is,
\* whatever submissions and next-question clicks came before.
C16_CurrentQuestionWithinQuiz ==
    [][ HasQuiz =>
          /\ 0 <= CurrentQuestion /\ CurrentQuestion < QuestionCount
          /\ 0 <= CurrentQuestion' /\ CurrentQuestion' < QuestionCount'
          /\ ClickNextQuestion =>
                IF CurrentQuestion < QuestionCount - 1
                THEN CurrentQuestion' = CurrentQuestion + 1
                ELSE /\ CurrentQuestion' = CurrentQuestion
                     /\ last' \in {"showQuizResults", "showQuizResults:TypeError"} ]_vars

\* the results of a three-question quiz, reached from its last question
C16_Witness ==
    /\ last = "showQuizResults"
    /\ dom.quiz = "results"
    /\ QuestionCount = 3
    /\ CurrentQuestion = 2
    /\ answered = {0, 1, 2}

\* next_button.enabled of every section, in order
EnabledFlags == [i \in 1..Len(sections) |-> sections[i].next_button.enabled]

\* C17: submitQuizAnswer leaves currentQuestion, currentSectionIndex and
\* every next_button.enabled as they were; currentQuestion changes only in a
\* step of the next-question listener, and then by exactly one.
C17_SubmitKeepsQuestion ==
    [][ /\ SubmitStep =>
              /\ CurrentQuestion' = CurrentQuestion
              /\ currentSectionIndex' = currentSectionIndex
              /\ EnabledFlags' = EnabledFlags
        /\ CurrentQuestion' # CurrentQuestion =>
              /\ ClickNextQuestion
              /\ CurrentQuestion' = CurrentQuestion + 1 ]_vars

\* the second question has been graded and is still the current one
C17_Witness ==
    /\ last = "submitQuizAnswer:graded"
    /\ dom.quiz = "feedback"
    /\ dom.shown = 1
    /\ CurrentQuestion = 1
    /\ answered = {0, 1}
    /\ ~QuizEnabled

\* an action the rendered controls dispatch to the controller
UIDispatch ==
    \/ ClickContinue
    \/ ClickBack
    \/ \E option \in Options : ClickOption(option)
    \/ \E text \in TypedTexts : ClickSubmitShort(text)
    \/ ClickNextQuestion

\* C18: from the start of the exit phase of a nextSection()/prevSection()
\* call until its entry phase has finished, the rendered controls dispatch no
\* navigation, submission or next-question action to the controller.
C18_TransitionBlocksInput ==
    [][ inflight # <<>> => ~UIDispatch ]_vars

\* the view shows the section at the current index
ViewAtIndex ==
    (dom.section # "none" /\ HasSection(sections, currentSectionIndex)) =>
        dom.section = SectionAt(sections, currentSectionIndex).type

\* C19: in a nextSection()/prevSection() call that makes a transition the
\* exit phase ends first, then currentSectionIndex changes, then the entry
\* phase renders the section at the new index: while a call stays in its exit
\* phase the index keeps its value, the index changes only where an exit
\* phase ends, and the view never shows the new section before the index has
\* changed.
C19_ExitThenIndexThenEntry ==
    [][ /\ (Exiting # {} /\ Exiting' # {}) =>
               currentSectionIndex' = currentSectionIndex
        /\ currentSectionIndex' # currentSectionIndex =>
               /\ FadeOutDone
               /\ Cardinality(Exiting') = Cardinality(Exiting) - 1
        /\ ViewAtIndex
        /\ ViewAtIndex' ]_vars


\* C20: currentSectionIndex changes only where a nextSection() or a
\* prevSection() call leaves its exit phase, once per call, by +1 for
\* nextSection() and by -1 for prevSection(); submitQuizAnswer, the
\* next-question listener, showQuizResults, render and setOnComplete never
\* change it.
C20_IndexMovesByOne ==
    [][ currentSectionIndex' # currentSectionIndex =>
          \E k \in Exiting :
              /\ \/ inflight' = [inflight EXCEPT ![k].phase = "entry"]
                 \/ inflight' = RemoveAt(inflight, k)
              /\ currentSectionIndex' =
                     IF inflight[k].op = "next"
                     THEN currentSectionIndex + 1
                     ELSE currentSectionIndex - 1
              /\ inflight[k].op \in {"next", "prev"}
              /\ last' = last ]_vars

\* forward twice and back once in a three-section study
C20_Witness ==
    /\ Len(sections) = 3
    /\ last = "prevSection:fadeOut"
    /\ inflight = <<>>
    /\ currentSectionIndex = 1
    /\ dom.section = Example


\* the calls that started a transition and have finished it
Finished == driver.calls - Len(inflight)

\* C21: every nextSection()/prevSection() call that passes its guard ends its
\* exit phase, changes the index and ends its entry phase, given that the
\* timers fire; a call leaves only by finishing, one at a time, and no exit
\* phase ends without its index change.
C21_TransitionRunsToCompletion ==
    /\ \A n \in 1..MaxCalls : (driver.calls >= n) ~> (Finished >= n)
    /\ [][ Cardinality(Exiting') < Cardinality(Exiting) =>
             /\ FadeOutDone
             /\ Cardinality(Exiting') = Cardinality(Exiting) - 1
             /\ currentSectionIndex' # currentSectionIndex ]_vars
    /\ [][ Len(inflight') < Len(inflight) =>
             /\ Len(inflight') = Len(inflight) - 1
             /\ FadeInDone \/ (FadeOutDone /\ container = "null") ]_vars

\* two overlapping nextSection() calls have both run to their end
C21_Witness ==
    /\ driver.calls >= 2
    /\ inflight = <<>>
    /\ Len(sections) = 2
    /\ currentSectionIndex = 2


\* C22: once showQuizResults has enabled the continue button of a quiz that
\* is the last section, a click on that button, in the view as it stands,
\* reaches nextSection(): the enabled button carries the click listener.
C22_ResultsContinueCompletes ==
    ( /\ last = "showQuizResults"
      /\ dom.quiz = "results"
      /\ ~dom.contDisabled
      /\ currentSectionIndex = Len(sections) - 1 )
    => dom.contListener


\* C23: nextSection() does not read next_button.enabled: called by a script
\* at the quiz, the last section, it fires the completion callback and
\* changes nothing else, whether the quiz's button is enabled or still
\* disabled.
C23_NextSectionIgnoresEnabled ==
    [][ ( /\ AwaitedNextSection
          /\ SectionAt(sections, currentSectionIndex).type = Quiz )
        => /\ completions' = completions + 1
           /\ last' = "nextSection:complete"
           /\ UNCHANGED <<sections, currentSectionIndex, inflight, dom>> ]_vars

\* the callback has fired at a quiz that was never finished
C23_Witness ==
    /\ last = "nextSection:complete"
    /\ SectionAt(sections, currentSectionIndex).type = Quiz
    /\ ~QuizEnabled
    /\ answered = {}
    /\ completions = 1


\* C24: with the page driven through its rendered controls only, at any
\* time and also during transitions, the completion callback is never
\* invoked while the study has a quiz whose next_button.enabled is false.
C24_NoCompletionBeforeQuizDone ==
    [][ completions' # completions => (HasQuiz => QuizEnabled) ]_vars

\* the callback has fired from the page, at a finished quiz
C24_Witness ==
    /\ HasQuiz
    /\ QuizEnabled
    /\ last = "nextSection:complete"
    /\ completions = 1


\* C25: whenever no transition is in flight and a container is attached, the
\* view is the rendering of the section at currentSectionIndex: there is such
\* a section, the view shows its type, and the back control is there exactly
\* when the index is positive.
C25_ViewMatchesIndex ==
    (inflight = <<>> /\ container # "null") =>
        /\ HasSection(sections, currentSectionIndex)
        /\ dom.section = SectionAt(sections, currentSectionIndex).type
        /\ dom.back = (currentSectionIndex > 0)

\* a step of nextSection() or prevSection(): the call or one of its timers
NavigationStep ==
    \/ ClickContinue
    \/ ClickBack
    \/ FadeOutDone
    \/ FadeInDone

\* C26: nextSection() and prevSection() leave the quiz as it is: the score,
\* currentQuestion and next_button.enabled are the same after every step of
\* theirs, and the view they render does not open again a question that has
\* already been answered.
C26_NavigationKeepsQuiz ==
    [][ NavigationStep =>
          /\ sections' = sections
          /\ ~(dom'.quiz = "open" /\ dom'.shown \in answered') ]_vars

\* the request being handled has been answered
Answered == server.stage = "idle" /\ server.response # NoResponse

\* C27: a GET for /backend/js/auth.js is answered with mock-auth.js, whether
\* or not a file backend/js/auth.js exists under the served root (mock-auth.js
\* itself being there to send).
C27_MockAuthTakesPrecedence ==
    ( /\ Answered
      /\ server.url = <<backend, js, auth_js>>
      /\ <<mock_auth_js>> \in server.fs )
    => server.response = Sent(<<mock_auth_js>>)

\* some segment of the sub-path holds a '.' character
HasDot(sub) == \E i \in 1..Len(sub) : \E j \in 1..Len(sub[i]) : sub[i][j] = "."

\* the request was answered by the handler of /dashboard/*
AnsweredByRewrite == Answered /\ server.by = "dashboard/*"

\* C28 as stated: a GET /dashboard/<subPath> that reaches the rewrite handler
\* is answered with pages/dashboard/<subPath> if that can be sent, otherwise
\* with pages/dashboard/index.html when subPath has no '.' and with 404
\* 'Not Found' when it has one.
C28_RewriteResponse ==
    AnsweredByRewrite =>
        LET sub           == Tail(server.url)
            potentialFile == <<pages, dashboard>> \o sub
        IN  IF potentialFile \in server.fs
            THEN server.response = Sent(potentialFile)
            ELSE IF ~HasDot(sub)
            THEN server.response = Sent(<<pages, dashboard, index_html>>)
            ELSE server.response = NotFound

\* C28, amended: as above, except that the fallback for a subPath without
\* '.' is res.sendFile(index.html) with no callback: index.html when it can
\* be sent, and express's error response when it cannot.
C28_RewriteResponseOrError ==
    AnsweredByRewrite =>
        LET sub           == Tail(server.url)
            potentialFile == <<pages, dashboard>> \o sub
            indexFile     == <<pages, dashboard, index_html>>
        IN  IF potentialFile \in server.fs
            THEN server.response = Sent(potentialFile)
            ELSE IF ~HasDot(sub)
            THEN server.response =
                     IF indexFile \in server.fs THEN Sent(indexFile) ELSE SendError
            ELSE server.response = NotFound

\* a missing page without '.' was asked for and index.html was sent instead
C28_Witness ==
    /\ AnsweredByRewrite
    /\ server.url = <<dashboard, <<"s">>, <<"a">>>>
    /\ <<pages, dashboard, <<"s">>, <<"a">>>> \notin server.fs
    /\ <<pages, dashboard, <<"s">>, <<"a", ".", "j">>>> \in server.fs
    /\ server.response = Sent(<<pages, dashboard, index_html>>)

============================================================================
